---- MODULE Spec2Model ----
(***************************************************************************)
(* State-machine model of the ERP backend's order / payment / inventory    *)
(* services (OrdersService, PaymentsService, ProductsService), their      *)
(* controllers' ownership checks, and the notification gateway.            *)
(*                                                                         *)
(* The persisted tables are the state: products, orders, payments.  Every  *)
(* service method is one action when requests run one at a time; the       *)
(* in-flight variants split a method at its awaits (repository reads and   *)
(* writes, gateway calls).  Money is counted in cents (decimal(10,2)).     *)
(***************************************************************************)
EXTENDS Integers, Sequences, FiniteSets, TLC

VARIABLES
    products,   \* product id -> [price, stock, isActive]       (products table)
    orders,     \* order id -> order row                         (orders table)
    nextOrderId,\* next value of the orders primary-key sequence
    payments,   \* payment id -> payment row, ids are 1..Len     (payments table)
    last,       \* the last completed service call and its outcome
    reqs,       \* in-flight requests: request id -> local variables
    sockets,    \* socket id -> [connected, user]: the sockets socket.io accepted
    connectedClients, \* NotificationsGateway.connectedClients: key -> socket id
    adminClients      \* NotificationsGateway.adminClients: set of socket ids

\* The state of the notification gateway.
gatewayVars == <<sockets, connectedClients, adminClients>>

vars == <<products, orders, nextOrderId, payments, last, reqs, gatewayVars>>

----------------------------------------------------------------------------
(* Bounds of the model *)

MaxOrders == 2       \* orders ever created
MaxPayments == 2     \* payment rows ever created
MaxLines == 2        \* lines of one order request
MaxQty == 2          \* largest quantity of one order line
MaxStockQty == 2     \* largest quantity of a stock operation
MaxStock == 4        \* stock level above which 'add' is no longer explored
MaxDebt == 2         \* stock level below zero under which nothing is explored
InitStock == 3       \* stock of every product in the initial state
NumSuffix == 2       \* distinct random suffixes of an order number

----------------------------------------------------------------------------
(* Data *)

Cents == 100                 \* decimal(10,2): amounts are whole cents

ProductIds == {1, 2}
MissingProduct == 3          \* an id with no row in products
CustomerIds == {1, 2}        \* users with role CUSTOMER
AdminId == 3                 \* a user with role ADMIN
MissingUser == 4             \* an id with no row in users
UserIds == CustomerIds \cup {AdminId}

\* Prices of the two products, in cents: $50.00 and $25.00.
InitPrice(p) == IF p = 1 THEN 50 * Cents ELSE 25 * Cents

OrderStatus == {"PENDING", "CONFIRMED", "SHIPPED", "DELIVERED", "CANCELLED", "REFUNDED"}

PaymentStatus == {"PENDING", "PROCESSING", "COMPLETED", "FAILED", "CANCELLED",
                  "REFUNDED", "PARTIALLY_REFUNDED"}

PaymentMethod == {"STRIPE", "PAYPAL", "MAYA", "CASH", "BANK_TRANSFER"}

None == "none"               \* undefined / null

\* The room every admin socket joins; customers are addressed by user id.
AdminRoom == 0

\* An event handed to the notification gateway, or a call made to a payment
\* gateway: its name, the user (or room) it goes to, the status it carries.
Event(kind, to, status) == [kind |-> kind, to |-> to, status |-> status]

NoCall == [op |-> "init", res |-> "ok", ev |-> {}]

\* A completed call, its outcome and the events it emitted.
CallEv(op, res, ev) == [op |-> op, res |-> res, ev |-> ev]

Call(op, res) == CallEv(op, res, {})

----------------------------------------------------------------------------
(* Initial state: seeded products, no orders, no payments, nothing in flight *)

\* The gateway before any socket has connected.
NoSockets ==
    /\ sockets = << >>
    /\ connectedClients = << >>
    /\ adminClients = {}

\* A product row as the seed inserts it.
SeedProduct(p) ==
    [name |-> "seeded", price |-> InitPrice(p), stock |-> InitStock, isActive |-> TRUE]

Init ==
    /\ products = [p \in ProductIds |-> SeedProduct(p)]
    /\ orders = << >>
    /\ nextOrderId = 1
    /\ payments = << >>
    /\ last = NoCall
    /\ reqs = << >>
    /\ NoSockets

----------------------------------------------------------------------------
(* ProductsService: stock operations *)

\* Quantities a stock request may carry: the body is not validated, so zero
\* and negative numbers reach the service.
StockQuantities == (0 - 1) .. MaxStockQty

\* The stock levels the model explores.
Explored(stock) == 0 - MaxDebt <= stock /\ stock <= MaxStock

\* updateStock, operation 'subtract': the guard of the else branch.
SubtractFails(stock, quantity) == stock < quantity

\* updateStock(id, quantity, operation)
ProductsUpdateStock(id, quantity, operation) ==
    /\ id \in DOMAIN products
    /\ IF operation = "add"
       THEN /\ Explored(products[id].stock + quantity)
            /\ products' = [products EXCEPT ![id].stock = @ + quantity]
            /\ last' = Call("updateStock", "ok")
       ELSE IF SubtractFails(products[id].stock, quantity)
            THEN /\ products' = products
                 /\ last' = Call("updateStock", "Insufficient stock")
            ELSE /\ Explored(products[id].stock - quantity)
                 /\ products' = [products EXCEPT ![id].stock = @ - quantity]
                 /\ last' = Call("updateStock", "ok")
    /\ UNCHANGED <<orders, nextOrderId, payments, reqs, gatewayVars>>

\* reserveStock(id, quantity)
ProductsReserveStock(id, quantity) ==
    /\ id \in DOMAIN products
    /\ IF ~products[id].isActive
       THEN /\ products' = products
            /\ last' = Call("reserveStock", "Product is not active")
       ELSE IF products[id].stock < quantity
            THEN /\ products' = products
                 /\ last' = Call("reserveStock", "Insufficient stock")
            ELSE /\ Explored(products[id].stock - quantity)
                 /\ products' = [products EXCEPT ![id].stock = @ - quantity]
                 /\ last' = Call("reserveStock", "ok")
    /\ UNCHANGED <<orders, nextOrderId, payments, reqs, gatewayVars>>

\* releaseStock(id, quantity)
ProductsReleaseStock(id, quantity) ==
    /\ id \in DOMAIN products
    /\ Explored(products[id].stock + quantity)
    /\ products' = [products EXCEPT ![id].stock = @ + quantity]
    /\ last' = Call("releaseStock", "ok")
    /\ UNCHANGED <<orders, nextOrderId, payments, reqs, gatewayVars>>

\* deactivate(id)
ProductsDeactivate(id) ==
    /\ id \in DOMAIN products
    /\ products' = [products EXCEPT ![id].isActive = FALSE]
    /\ last' = Call("deactivate", "ok")
    /\ UNCHANGED <<orders, nextOrderId, payments, reqs, gatewayVars>>

\* activate(id)
ProductsActivate(id) ==
    /\ id \in DOMAIN products
    /\ products' = [products EXCEPT ![id].isActive = TRUE]
    /\ last' = Call("activate", "ok")
    /\ UNCHANGED <<orders, nextOrderId, payments, reqs, gatewayVars>>

\* Bodies of PUT /products/:id: any subset of the product's columns. The body
\* is not validated, so a negative price or stock reaches the service. The sku
\* column is not part of the model.
ProductPatches ==
    {[name |-> "renamed"], [price |-> 30 * Cents], [price |-> 0 - 1],
     [stock |-> 0 - 1], [name |-> "renamed", price |-> 30 * Cents]}

\* A catalogue edit that also rewrites the lines of the orders already placed.
ProductsUpdateRepricing(id, patch) ==
    /\ id \in DOMAIN products
    /\ "price" \in DOMAIN patch
    /\ patch.price >= 0
    /\ products' = [products EXCEPT ![id].price = patch.price]
    /\ orders' = [i \in DOMAIN orders |->
                    [orders[i] EXCEPT !.items =
                        [k \in DOMAIN @ |->
                            IF @[k].productId = id
                            THEN [@[k] EXCEPT !.unitPrice = patch.price]
                            ELSE @[k]]]]
    /\ last' = [op |-> "products.update", res |-> "ok", ev |-> {}]
    /\ UNCHANGED <<nextOrderId, payments, reqs, gatewayVars>>

\* update(id, updateProductDto)
ProductsUpdate(id, patch) ==
    /\ id \in DOMAIN products
    /\ IF "price" \in DOMAIN patch /\ patch.price < 0
       THEN /\ last' = Call("products.update", "Price cannot be negative")
            /\ UNCHANGED products
       ELSE IF "stock" \in DOMAIN patch /\ patch.stock < 0
       THEN /\ last' = Call("products.update", "Stock cannot be negative")
            /\ UNCHANGED products
       ELSE /\ products' =
                 [products EXCEPT ![id] =
                     [f \in DOMAIN @ |-> IF f \in DOMAIN patch THEN patch[f] ELSE @[f]]]
            /\ last' = Call("products.update", "ok")
    /\ UNCHANGED <<orders, nextOrderId, payments, reqs, gatewayVars>>

\* remove(id)
ProductsRemove(id) ==
    /\ id \in DOMAIN products
    /\ products' = [p \in DOMAIN products \ {id} |-> products[p]]
    /\ last' = Call("products.remove", "ok")
    /\ UNCHANGED <<orders, nextOrderId, payments, reqs, gatewayVars>>

\* Inventory requests served one at a time.
NextStock ==
    \/ \E id \in ProductIds, q \in StockQuantities, operation \in {"add", "subtract"} :
          ProductsUpdateStock(id, q, operation)
    \/ \E id \in ProductIds, q \in StockQuantities : ProductsReserveStock(id, q)
    \/ \E id \in ProductIds : ProductsDeactivate(id)
    \/ \E id \in ProductIds : ProductsActivate(id)

SpecStock == Init /\ [][NextStock]_vars

----------------------------------------------------------------------------
(* OrdersService *)

RECURSIVE SumSeq(_)
SumSeq(s) == IF s = << >> THEN 0 ELSE Head(s) + SumSeq(Tail(s))

\* A stock guard that accepts a quantity one above the stock.
InsufficientStockOffByOne(stock, quantity) == stock + 1 < quantity

\* processOrderItems: the stock guard of one line.
InsufficientStock(stock, quantity) == stock < quantity

\* processOrderItems: the outcome of the checks of one request line.
ItemError(item, prods) ==
    IF item.productId \notin DOMAIN prods THEN "Product not found"
    ELSE IF ~prods[item.productId].isActive THEN "Product is not available"
    ELSE IF InsufficientStock(prods[item.productId].stock, item.quantity)
         THEN "Insufficient stock"
    ELSE "ok"

\* processOrderItems: the snapshot pushed for one accepted line.
ProcessedItem(item, prods) ==
    [productId |-> item.productId,
     productName |-> prods[item.productId].name,
     quantity |-> item.quantity,
     unitPrice |-> prods[item.productId].price,
     totalPrice |-> prods[item.productId].price * item.quantity]

\* processOrderItems(items): the loop throws at the first line that fails a
\* check, otherwise returns the snapshots in request order.
processOrderItems(items, prods) ==
    LET bad == {i \in 1..Len(items) : ItemError(items[i], prods) # "ok"}
        first == CHOOSE i \in bad : \A j \in bad : i <= j
    IN IF bad # {}
       THEN [err |-> ItemError(items[first], prods), items |-> << >>]
       ELSE [err |-> "ok",
             items |-> [i \in 1..Len(items) |-> ProcessedItem(items[i], prods)]]

\* calculateOrderTotals: shipping is free over $100.
ShippingFor(subtotal) == IF subtotal > 100 * Cents THEN 0 ELSE 10 * Cents

\* calculateOrderTotals(items).  The prices of the model are multiples of ten
\* cents, so that subtotal * 0.1 is a whole number of cents.
calculateOrderTotals(items) ==
    LET subtotal == SumSeq([i \in 1..Len(items) |-> items[i].totalPrice])
        tax == subtotal \div 10
        shipping == ShippingFor(subtotal)
        discount == 0
    IN [subtotal |-> subtotal, tax |-> tax, shipping |-> shipping,
        discount |-> discount, total |-> subtotal + tax + shipping - discount]

\* A transition table that also lets a PENDING order be marked DELIVERED.
isValidStatusTransitionLax(currentStatus, newStatus) ==
    \/ <<currentStatus, newStatus>> = <<"PENDING", "DELIVERED">>
    \/ <<currentStatus, newStatus>> \in
          {<<"PENDING", "CONFIRMED">>, <<"PENDING", "CANCELLED">>,
           <<"CONFIRMED", "SHIPPED">>, <<"CONFIRMED", "CANCELLED">>,
           <<"SHIPPED", "DELIVERED">>, <<"DELIVERED", "REFUNDED">>}

\* isValidStatusTransition(currentStatus, newStatus)
isValidStatusTransition(currentStatus, newStatus) ==
    LET validTransitions ==
          [s \in OrderStatus |->
             CASE s = "PENDING"   -> {"CONFIRMED", "CANCELLED"}
               [] s = "CONFIRMED" -> {"SHIPPED", "CANCELLED"}
               [] s = "SHIPPED"   -> {"DELIVERED"}
               [] s = "DELIVERED" -> {"REFUNDED"}
               [] s = "CANCELLED" -> {}
               [] s = "REFUNDED"  -> {}]
    IN currentStatus \in OrderStatus /\ newStatus \in validTransitions[currentStatus]

\* A column without its unique index: no order number is ever refused.
OrderNumberNeverTaken(orderNumber) == FALSE

\* The unique index on orders.orderNumber.
OrderNumberTaken(orderNumber) ==
    \E i \in DOMAIN orders : orders[i].orderNumber = orderNumber

\* A decrement applied once per product, by the quantity of its first line.
StockAfterFirstLine(p, items) ==
    LET mine == {i \in 1..Len(items) : items[i].productId = p}
    IN IF mine = {} THEN products[p].stock
       ELSE products[p].stock - items[CHOOSE i \in mine : \A j \in mine : i <= j].quantity

\* The stock of product p after decrementing it by every line of items.
StockAfter(p, items) ==
    products[p].stock
      - SumSeq([i \in 1..Len(items) |->
                  IF items[i].productId = p THEN items[i].quantity ELSE 0])

\* A table with one more row.
Insert(table, id, row) ==
    [i \in DOMAIN table \cup {id} |-> IF i = id THEN row ELSE table[i]]

\* A table without one row.
Delete(table, id) == [i \in DOMAIN table \ {id} |-> table[i]]

\* Request lines: any product id (known or not) with a positive quantity.
Lines == [productId : ProductIds \cup {MissingProduct}, quantity : 1..MaxQty]

ItemLists == UNION {[1..n -> Lines] : n \in 0..MaxLines}

\* Some line of the request asks for more than its product's current stock.
OverStock(items, prods) ==
    \E i \in 1..Len(items) :
        /\ items[i].productId \in DOMAIN prods
        /\ items[i].quantity > prods[items[i].productId].stock

\* The order row built by create.
NewOrder(id, orderNumber, customerId, items, totals) ==
    [id |-> id,
     orderNumber |-> orderNumber,
     customerId |-> customerId,
     status |-> "PENDING",
     items |-> items,
     totalAmount |-> totals.subtotal,
     taxAmount |-> totals.tax,
     shippingCost |-> totals.shipping,
     discountAmount |-> totals.discount,
     finalAmount |-> totals.total,
     notes |-> None,
     cancellationReason |-> None,
     deliveredDate |-> None]

\* notifyNewOrder: the event sent to the admins.
NewOrderEvents == {Event("new_order", AdminRoom, None)}

\* notifyOrderStatusUpdate: the events sent to the customer and to the admins.
OrderStatusEvents(customerId, status) ==
    {Event("order_status_update", customerId, status),
     Event("order_status_changed", AdminRoom, status)}

\* create(createOrderDto): customer check, processOrderItems, totals, order
\* number, save, then one stock decrement per line, then notifyNewOrder, which
\* is awaited outside any try: when the sink throws (sinkOk false) so does
\* create, after the order is saved and the stock decremented.
OrdersCreate(customerId, items, suffix, sinkOk) ==
    LET processed == processOrderItems(items, products)
        totals == calculateOrderTotals(processed.items)
    IN
    /\ IF customerId \notin CustomerIds
       THEN /\ last' = Call("orders.create", "Customer not found")
            /\ UNCHANGED <<products, orders, nextOrderId>>
       ELSE IF processed.err # "ok"
       THEN /\ last' = Call("orders.create", processed.err)
            /\ UNCHANGED <<products, orders, nextOrderId>>
       ELSE IF OrderNumberTaken(suffix)
       THEN /\ last' = Call("orders.create", "duplicate key orderNumber")
            /\ UNCHANGED <<products, orders, nextOrderId>>
       ELSE /\ nextOrderId <= MaxOrders
            /\ orders' = Insert(orders, nextOrderId,
                                NewOrder(nextOrderId, suffix, customerId,
                                         processed.items, totals))
            /\ nextOrderId' = nextOrderId + 1
            /\ products' = [p \in DOMAIN products |->
                              [products[p] EXCEPT !.stock = StockAfter(p, processed.items)]]
            /\ last' = IF sinkOk
                       THEN CallEv("orders.create", "ok", NewOrderEvents)
                       ELSE Call("orders.create", "notification error")
    /\ UNCHANGED <<payments, reqs, gatewayVars>>

\* updateStatus(id, status): the notification is awaited after the save.
OrdersUpdateStatus(id, status, sinkOk) ==
    /\ IF id \notin DOMAIN orders
       THEN /\ last' = Call("orders.updateStatus", "Order not found")
            /\ orders' = orders
       ELSE IF ~isValidStatusTransition(orders[id].status, status)
       THEN /\ last' = Call("orders.updateStatus", "Invalid status transition")
            /\ orders' = orders
       ELSE /\ orders' = [orders EXCEPT
                            ![id].status = status,
                            ![id].deliveredDate =
                                IF status = "DELIVERED" THEN "now" ELSE @]
            /\ last' = IF sinkOk
                       THEN CallEv("orders.updateStatus", "ok",
                                   OrderStatusEvents(orders[id].customerId, status))
                       ELSE Call("orders.updateStatus", "notification error")
    /\ UNCHANGED <<products, nextOrderId, payments, reqs, gatewayVars>>

\* Object.assign(order, updateOrderDto): every own property of the patch is
\* copied onto the loaded row.
Assign(row, patch) ==
    [f \in DOMAIN row \cup DOMAIN patch |-> IF f \in DOMAIN patch THEN patch[f] ELSE row[f]]

\* Request bodies of PUT /orders/:id.  The body is spread into the patch as it
\* arrives, so it may carry any column besides the four documented ones.
Patches ==
    {[notes |-> "edited"]}
      \cup {[status |-> s] : s \in {"DELIVERED", "PENDING"}}
      \cup {[finalAmount |-> 1 * Cents]}

\* update(id, updateOrderDto)
OrdersUpdate(id, patch) ==
    /\ IF id \notin DOMAIN orders
       THEN /\ last' = Call("orders.update", "Order not found")
            /\ orders' = orders
       ELSE IF orders[id].status # "PENDING"
       THEN /\ last' = Call("orders.update", "Cannot update order")
            /\ orders' = orders
       ELSE /\ orders' = [orders EXCEPT ![id] = Assign(@, patch)]
            /\ last' = Call("orders.update", "ok")
    /\ UNCHANGED <<products, nextOrderId, payments, reqs, gatewayVars>>

\* A cancellation that hands the quantities of the order back to the stock.
OrdersCancelRestocking(id, reason) ==
    /\ id \in DOMAIN orders
    /\ orders[id].status \in {"PENDING", "CONFIRMED"}
    /\ orders' = [orders EXCEPT ![id].status = "CANCELLED"]
    /\ products' =
          [p \in DOMAIN products |->
              [products[p] EXCEPT !.stock =
                  @ + SumSeq([k \in 1..Len(orders[id].items) |->
                                 IF orders[id].items[k].productId = p
                                 THEN orders[id].items[k].quantity ELSE 0])]]
    /\ last' = Call("orders.cancel", "ok")
    /\ UNCHANGED <<nextOrderId, payments, reqs, gatewayVars>>

\* cancel(id, reason)
OrdersCancel(id, reason) ==
    /\ IF id \notin DOMAIN orders
       THEN /\ last' = Call("orders.cancel", "Order not found")
            /\ orders' = orders
       ELSE IF orders[id].status \notin {"PENDING", "CONFIRMED"}
       THEN /\ last' = Call("orders.cancel", "Cannot cancel order")
            /\ orders' = orders
       ELSE /\ orders' = [orders EXCEPT
                            ![id].status = "CANCELLED",
                            ![id].cancellationReason = IF reason # None THEN reason ELSE @,
                            ![id].notes = IF reason # None THEN "cancelled" ELSE @]
            /\ last' = Call("orders.cancel", "ok")
    /\ UNCHANGED <<products, nextOrderId, payments, reqs, gatewayVars>>

\* remove(id): the payments of an order reference it by foreign key.
OrdersRemove(id) ==
    /\ IF id \notin DOMAIN orders
       THEN /\ last' = Call("orders.remove", "Order not found")
            /\ orders' = orders
       ELSE IF orders[id].status # "PENDING"
       THEN /\ last' = Call("orders.remove", "Cannot delete order")
            /\ orders' = orders
       ELSE IF \E k \in DOMAIN payments : payments[k].orderId = id
       THEN /\ last' = Call("orders.remove", "foreign key violation")
            /\ orders' = orders
       ELSE /\ orders' = Delete(orders, id)
            /\ last' = Call("orders.remove", "ok")
    /\ UNCHANGED <<products, nextOrderId, payments, reqs, gatewayVars>>

OrderIds == 1..MaxOrders

----------------------------------------------------------------------------
(* PaymentsService *)

\* A payable check that only refuses refunded orders.
canOrderBePaidUnlessRefunded(order) == order.status # "REFUNDED"

\* canOrderBePaid(order)
canOrderBePaid(order) == order.status \in {"PENDING", "CONFIRMED"}

\* A paid total that also counts what a partial refund left with the merchant.
TotalPaidNetOfRefunds(orderId, pays) ==
    SumSeq([k \in 1..Len(pays) |->
              IF pays[k].orderId # orderId THEN 0
              ELSE IF pays[k].status = "COMPLETED" THEN pays[k].amount
              ELSE IF pays[k].status = "PARTIALLY_REFUNDED"
                   THEN pays[k].amount - pays[k].refundAmount
              ELSE 0])

\* create: totalPaid, the sum of the amounts of the order's COMPLETED payments.
TotalPaid(orderId, pays) ==
    SumSeq([k \in 1..Len(pays) |->
              IF pays[k].orderId = orderId /\ pays[k].status = "COMPLETED"
              THEN pays[k].amount ELSE 0])

\* An overpayment guard that never fires.
OverpaysNever(totalPaid, amount, finalAmount) == FALSE

\* create: the overpayment guard.
Overpays(totalPaid, amount, finalAmount) == totalPaid + amount > finalAmount

\* A remaining-balance guard that never fires.
UnderpaysNever(totalPaid, amount, finalAmount) == FALSE

\* create: the guard on the remaining balance.
Underpays(totalPaid, amount, finalAmount) == amount < finalAmount - totalPaid

\* create: the checks made before a payment row is written, in order, on the
\* order row and the payments loaded with it.  ords is the orders table read.
CreateCheck(ords, pays, orderId, customerId, amount) ==
    IF orderId \notin DOMAIN ords THEN "Order not found"
    ELSE IF customerId \notin UserIds THEN "Customer not found"
    ELSE IF ~canOrderBePaid(ords[orderId]) THEN "Order cannot be paid in current status"
    ELSE IF amount <= 0 THEN "Payment amount must be greater than 0"
    ELSE IF Overpays(TotalPaid(orderId, pays), amount, ords[orderId].finalAmount)
         THEN "Payment amount exceeds remaining order balance"
    ELSE IF Underpays(TotalPaid(orderId, pays), amount, ords[orderId].finalAmount)
         THEN "Payment amount does not cover remaining balance"
    ELSE "ok"

\* The payment row built by create.
NewPayment(orderId, customerId, amount, paymentMethod) ==
    [orderId |-> orderId,
     customerId |-> customerId,
     amount |-> amount,
     paymentMethod |-> paymentMethod,
     status |-> "PENDING",
     errorMessage |-> None,
     refundAmount |-> 0,
     refundedAt |-> None]

\* The exception create ends with for a Stripe payment: none when the call to
\* Stripe returns and the notification is sent; otherwise the one thrown last,
\* which is the sink's whenever the sink throws (its call in the catch block of
\* processStripePayment comes before the rethrow).
StripeError(gatewayOk, sinkOk) ==
    IF ~sinkOk THEN "notification error"
    ELSE IF ~gatewayOk THEN "gateway error"
    ELSE "ok"

\* processPayment: the row as the method's handler, and the catch block of
\* create, leave it.  Only the Stripe handler calls out and notifies;
\* gatewayOk is whether the call to Stripe returns, sinkOk whether the
\* notification sink does.
Processed(payment, gatewayOk, sinkOk) ==
    CASE payment.paymentMethod = "STRIPE" ->
           IF StripeError(gatewayOk, sinkOk) = "ok"
           THEN [payment EXCEPT !.status = "COMPLETED"]
           ELSE [payment EXCEPT !.status = "FAILED",
                                !.errorMessage = StripeError(gatewayOk, sinkOk)]
      [] payment.paymentMethod \in {"PAYPAL", "MAYA"} ->
           [payment EXCEPT !.status = "COMPLETED"]
      [] payment.paymentMethod \in {"CASH", "BANK_TRANSFER"} ->
           [payment EXCEPT !.status = "PENDING"]

\* notifyPaymentStatusUpdate: the events sent to the customer and to the admins.
PaymentStatusEvents(customerId, status) ==
    {Event("payment_status_update", customerId, status),
     Event("payment_status_changed", AdminRoom, status)}

\* notifyFailedPayment: the event sent to the admins.
FailedPaymentEvents == {Event("payment_failed", AdminRoom, "FAILED")}

\* The call made to the payment gateway.
GatewayCall == {Event("stripe.paymentIntents.create", AdminRoom, None)}

\* processPayment: the gateway call made and the events sent for a payment.
\* A sink that throws delivers nothing.
PaymentEvents(payment, gatewayOk, sinkOk) ==
    IF payment.paymentMethod # "STRIPE" THEN {}
    ELSE GatewayCall \cup
         (IF ~sinkOk THEN {}
          ELSE IF gatewayOk THEN PaymentStatusEvents(payment.customerId, "COMPLETED")
          ELSE PaymentStatusEvents(payment.customerId, "FAILED") \cup FailedPaymentEvents)

\* create: how the call ends for a payment whose row was written.
PaymentResult(payment, gatewayOk, sinkOk) ==
    IF payment.paymentMethod = "STRIPE" THEN StripeError(gatewayOk, sinkOk) ELSE "ok"

\* create(createPaymentDto)
PaymentsCreate(orderId, customerId, amount, paymentMethod, gatewayOk, sinkOk) ==
    LET err == CreateCheck(orders, payments, orderId, customerId, amount)
        new == NewPayment(orderId, customerId, amount, paymentMethod)
        row == Processed(new, gatewayOk, sinkOk)
    IN
    /\ IF err # "ok"
       THEN /\ last' = Call("payments.create", err)
            /\ payments' = payments
       ELSE /\ Len(payments) < MaxPayments
            /\ payments' = Append(payments, row)
            /\ last' = CallEv("payments.create", PaymentResult(new, gatewayOk, sinkOk),
                               PaymentEvents(new, gatewayOk, sinkOk))
    /\ UNCHANGED <<products, orders, nextOrderId, reqs, gatewayVars>>

\* refund: the values of the optional amount that || treats as absent.
Falsy(amount) == amount = << >> \/ amount = <<0>>

\* refund: refundAmount = amount || payment.amount.  The optional amount is
\* << >> when the request carries none and <<a>> when it carries a.
RefundAmount(amount, paymentAmount) ==
    IF Falsy(amount) THEN paymentAmount ELSE amount[1]

\* refund: refundAmount === payment.amount.  payment.amount is the decimal
\* column as the driver read it back: a string under postgres (which is why
\* create goes through parseFloat(x.toString())), a number under other
\* drivers.  A supplied amount is a number, and is never === to a string; with
\* no amount, refundAmount is payment.amount itself.
StrictlyEqual(amount, paymentAmount, asString) ==
    IF Falsy(amount) THEN TRUE ELSE amount[1] = paymentAmount /\ ~asString

\* refund: the status written for a refund.
RefundStatus(amount, paymentAmount, asString) ==
    IF StrictlyEqual(amount, paymentAmount, asString)
    THEN "REFUNDED" ELSE "PARTIALLY_REFUNDED"

\* A refund guard that also lets a partially refunded payment through.
RefundableOrPartial(status) == status \in {"COMPLETED", "PARTIALLY_REFUNDED"}

\* refund: the guard on the status of the payment.
Refundable(status) == status = "COMPLETED"

\* refund(paymentId, amount)
PaymentsRefund(paymentId, amount, gatewayOk, asString) ==
    LET payment == payments[paymentId]
        refundAmount == RefundAmount(amount, payment.amount)
    IN
    /\ IF paymentId \notin DOMAIN payments
       THEN /\ last' = Call("payments.refund", "Payment not found")
            /\ payments' = payments
       ELSE IF ~Refundable(payment.status)
       THEN /\ last' = Call("payments.refund", "Only completed payments can be refunded")
            /\ payments' = payments
       ELSE IF refundAmount > payment.amount
       THEN /\ last' = Call("payments.refund", "Refund amount cannot exceed payment amount")
            /\ payments' = payments
       ELSE IF payment.paymentMethod = "STRIPE" /\ ~gatewayOk
       THEN /\ last' = Call("payments.refund", "Stripe refund failed")
            /\ payments' = payments
       ELSE /\ payments' = [payments EXCEPT
                              ![paymentId].status = RefundStatus(amount, payment.amount, asString),
                              ![paymentId].refundAmount = refundAmount,
                              ![paymentId].refundedAt = "now"]
            /\ last' = Call("payments.refund", "ok")
    /\ UNCHANGED <<products, orders, nextOrderId, reqs, gatewayVars>>

PaymentIds == 1..MaxPayments

\* Amounts a payment request may carry: nothing, a negative amount, and the
\* final amount of each order, one cent less and one cent more.
PayAmounts ==
    {0, 0 - 1} \cup UNION {{orders[i].finalAmount - 1, orders[i].finalAmount,
                            orders[i].finalAmount + 1} : i \in DOMAIN orders}

\* Amounts a refund request may carry: none, zero, and the amount of each
\* payment, one cent less and one cent more.
RefundAmounts ==
    {<< >>, <<0>>}
      \cup UNION {{<<payments[k].amount - 1>>, <<payments[k].amount>>,
                   <<payments[k].amount + 1>>} : k \in DOMAIN payments}

----------------------------------------------------------------------------
(* Requests served one at a time *)

\* Carts of the sequential specifications: subtotals of $50, $100 and $125.
Line(p, q) == [productId |-> p, quantity |-> q]

FewCarts == {<<Line(1, 1)>>, <<Line(1, 2)>>, <<Line(1, 2), Line(2, 1)>>}

\* The random suffixes an order number may draw.
Suffixes == 1..NumSuffix

\* What the notification sink can do when called: return or throw.
SinkOutcomes == BOOLEAN

\* A sink that returns from every call.
SinkHealthy == {TRUE}

CreateOrder(customers, carts, suffixes, sinks) ==
    \E c \in customers, items \in carts, suffix \in suffixes, sinkOk \in sinks :
        OrdersCreate(c, items, suffix, sinkOk)

UpdateStatus(sinks) ==
    \E id \in OrderIds, status \in OrderStatus, sinkOk \in sinks :
        OrdersUpdateStatus(id, status, sinkOk)

Update == \E id \in OrderIds, patch \in Patches : OrdersUpdate(id, patch)

Cancel == \E id \in OrderIds, reason \in {None, "reason"} : OrdersCancel(id, reason)

Remove == \E id \in OrderIds : OrdersRemove(id)

\* What the gateway call of a method can do: only Stripe is called, and its
\* call returns (TRUE) or throws (FALSE).
GatewayOutcomes(paymentMethod) == IF paymentMethod = "STRIPE" THEN BOOLEAN ELSE {TRUE}

CreatePayment(methods, sinks) ==
    \E orderId \in OrderIds, customerId \in {1, MissingUser}, amount \in PayAmounts,
       paymentMethod \in methods :
        \E gatewayOk \in GatewayOutcomes(paymentMethod),
           sinkOk \in (IF paymentMethod = "STRIPE" THEN sinks ELSE SinkHealthy) :
            PaymentsCreate(orderId, customerId, amount, paymentMethod, gatewayOk, sinkOk)

Refund ==
    \E paymentId \in PaymentIds, amount \in RefundAmounts :
        \E gatewayOk \in (IF paymentId \in DOMAIN payments
                           THEN GatewayOutcomes(payments[paymentId].paymentMethod)
                           ELSE {TRUE}),
           asString \in (IF Falsy(amount) THEN {TRUE} ELSE BOOLEAN) :
            PaymentsRefund(paymentId, amount, gatewayOk, asString)

\* The life of orders: every operation of OrdersService, with a notification
\* sink that returns from every call.
Next ==
    \/ CreateOrder({1, MissingUser}, FewCarts, Suffixes, SinkHealthy)
    \/ UpdateStatus(SinkHealthy)
    \/ Update
    \/ Cancel
    \/ Remove

Spec == Init /\ [][Next]_vars

\* Payments and refunds against orders that move along their lifecycle.  The
\* order numbers drawn here never collide.
NextPay ==
    \/ CreateOrder({1}, {<<Line(1, 1)>>}, {nextOrderId}, SinkHealthy)
    \/ \E id \in OrderIds : OrdersUpdateStatus(id, "CONFIRMED", TRUE)
    \/ \E id \in OrderIds : OrdersCancel(id, None)
    \/ CreatePayment(PaymentMethod, SinkHealthy)
    \/ Refund

SpecPay == Init /\ [][NextPay]_vars

\* Order creation with every cart, against products that come and go.
NextCreate ==
    \/ CreateOrder({1, MissingUser}, ItemLists, Suffixes, SinkHealthy)
    \/ \E id \in ProductIds : ProductsDeactivate(id)
    \/ \E id \in ProductIds : ProductsActivate(id)

SpecCreate == Init /\ [][NextCreate]_vars

\* Orders and payments with a notification sink that may throw.
NextNotify ==
    \/ CreateOrder({1}, {<<Line(1, 1)>>}, {nextOrderId}, SinkOutcomes)
    \/ UpdateStatus(SinkOutcomes)
    \/ CreatePayment(PaymentMethod, SinkOutcomes)

SpecNotify == Init /\ [][NextNotify]_vars

\* Orders placed while an administrator edits, deactivates, reactivates and
\* deletes the products they refer to.
NextCatalog ==
    \/ CreateOrder({1}, {<<Line(1, 1)>>, <<Line(2, 1), Line(1, 1)>>}, {nextOrderId},
                   SinkHealthy)
    \/ \E id \in ProductIds, patch \in ProductPatches : ProductsUpdate(id, patch)
    \/ \E id \in ProductIds : ProductsDeactivate(id)
    \/ \E id \in ProductIds : ProductsActivate(id)
    \/ \E id \in ProductIds : ProductsRemove(id)

SpecCatalog == Init /\ [][NextCatalog]_vars

----------------------------------------------------------------------------
(* OrdersController and PaymentsController: what a caller is let through to *)

\* request.user.role of the authenticated caller.
Role(user) == IF user = AdminId THEN "ADMIN" ELSE "CUSTOMER"

\* A response body, as the order rows and the payment rows it carries, joined
\* relations included.
Body(orderRows, paymentRows) == [orders |-> orderRows, payments |-> paymentRows]

Failed == Body({}, {})

\* The customerId filter that reaches the service: the query parameter
\* (<< >> when absent, <<id>> when given), overwritten with the caller's id
\* when the caller is a customer.
CustomerFilter(caller, customerId) ==
    IF Role(caller) = "CUSTOMER" THEN <<caller>> ELSE customerId

\* findAll: the row passes the customerId filter.
Passes(filter, customerId) == filter = << >> \/ filter = <<customerId>>

\* GET /orders: findAll joins every order with its payments.
OrdersControllerFindAll(caller, customerId) ==
    LET filter == CustomerFilter(caller, customerId)
        found == {i \in DOMAIN orders : Passes(filter, orders[i].customerId)}
    IN Body({orders[i] : i \in found},
            {payments[k] : k \in {k \in DOMAIN payments : payments[k].orderId \in found}})

\* GET /orders/:id: findOne loads the order with its payments, then the
\* ownership check.
OrdersControllerFindOne(caller, id) ==
    IF id \notin DOMAIN orders THEN Failed
    ELSE IF Role(caller) = "CUSTOMER" /\ orders[id].customerId # caller THEN Failed
    ELSE Body({orders[id]},
              {payments[k] : k \in {k \in DOMAIN payments : payments[k].orderId = id}})

\* GET /payments: findAll joins every payment with its order.
PaymentsControllerFindAll(caller, customerId) ==
    LET filter == CustomerFilter(caller, customerId)
        found == {k \in DOMAIN payments : Passes(filter, payments[k].customerId)}
    IN Body({orders[payments[k].orderId] : k \in found}, {payments[k] : k \in found})

\* GET /payments/:id: findOne loads the payment with its order, then the
\* ownership check on the payment.
PaymentsControllerFindOne(caller, id) ==
    IF id \notin DOMAIN payments THEN Failed
    ELSE IF Role(caller) = "CUSTOMER" /\ payments[id].customerId # caller THEN Failed
    ELSE Body({orders[payments[id].orderId]}, {payments[id]})

\* PUT /orders/:id: findOne, the ownership check, then update with the body.
OrdersControllerUpdate(caller, id, patch) ==
    IF id \in DOMAIN orders /\ Role(caller) = "CUSTOMER" /\ orders[id].customerId # caller
    THEN /\ last' = Call("orders.update", "Access denied")
         /\ UNCHANGED <<products, orders, nextOrderId, payments, reqs, gatewayVars>>
    ELSE OrdersUpdate(id, patch)

\* PUT /orders/:id/cancel: findOne, the ownership check, then cancel.
OrdersControllerCancel(caller, id, reason) ==
    IF id \in DOMAIN orders /\ Role(caller) = "CUSTOMER" /\ orders[id].customerId # caller
    THEN /\ last' = Call("orders.cancel", "Access denied")
         /\ UNCHANGED <<products, orders, nextOrderId, payments, reqs, gatewayVars>>
    ELSE OrdersCancel(id, reason)

\* Bodies of PUT /orders/:id that stay within the documented fields.
TenantPatches == {[notes |-> "edited"]}

\* Two customers and an administrator placing, editing, cancelling and paying
\* orders through the controllers.  POST /orders and POST /payments take the
\* customerId from the body, whoever the caller is.
NextTenant ==
    \/ CreateOrder(CustomerIds, {<<Line(1, 1)>>}, {nextOrderId}, SinkHealthy)
    \/ \E caller \in UserIds, id \in OrderIds, patch \in TenantPatches :
          OrdersControllerUpdate(caller, id, patch)
    \/ \E caller \in UserIds, id \in OrderIds :
          OrdersControllerCancel(caller, id, None)
    \/ \E orderId \in OrderIds, customerId \in CustomerIds, amount \in PayAmounts :
          PaymentsCreate(orderId, customerId, amount, "CASH", TRUE, TRUE)

SpecTenant == Init /\ [][NextTenant]_vars

\* Refunds against a payments table whose rows are in any status of the
\* PaymentStatus column, all for one order of customer 1.
RefundMethods == {"STRIPE", "PAYPAL"}

PaidOrder ==
    LET items == processOrderItems(<<Line(1, 1)>>,
                                   [p \in ProductIds |-> SeedProduct(p)]).items
    IN NewOrder(1, 1, 1, items, calculateOrderTotals(items))

InitRefund ==
    /\ products = [p \in ProductIds |-> SeedProduct(p)]
    /\ orders = <<PaidOrder>>
    /\ nextOrderId = 2
    /\ payments \in [1..MaxPayments ->
                       {[NewPayment(1, 1, PaidOrder.finalAmount, m) EXCEPT !.status = st] :
                          m \in RefundMethods, st \in PaymentStatus}]
    /\ last = NoCall
    /\ reqs = << >>
    /\ NoSockets

NextRefund == Refund

SpecRefund == InitRefund /\ [][NextRefund]_vars

----------------------------------------------------------------------------
(* Requests in flight at the same time.  A request is a record of the      *)
(* method's local variables and pc, the await it is suspended at.          *)

MaxReqs == 2         \* requests in flight

ReqIds == 1..MaxReqs

Idle(r) == r \notin DOMAIN reqs

(* PaymentsService.create, await by await *)

\* POST /payments arrives.
PayBegin(r, orderId, customerId, amount, paymentMethod) ==
    /\ Idle(r)
    /\ reqs' = Insert(reqs, r,
                      [pc |-> "load", orderId |-> orderId, customerId |-> customerId,
                       amount |-> amount, paymentMethod |-> paymentMethod,
                       ords |-> << >>, pays |-> << >>, pid |-> 0,
                       ev |-> {}, err |-> None])
    /\ UNCHANGED <<products, orders, nextOrderId, payments, last, gatewayVars>>

\* orderRepository.findOne with relations ['customer', 'payments']
PayLoad(r) ==
    /\ r \in DOMAIN reqs /\ reqs[r].pc = "load"
    /\ reqs' = [reqs EXCEPT
                  ![r].pc = "check",
                  ![r].ords = [i \in DOMAIN orders \cap {reqs[r].orderId} |-> orders[i]],
                  ![r].pays = payments]
    /\ UNCHANGED <<products, orders, nextOrderId, payments, last, gatewayVars>>

\* userRepository.findOne, then the checks on what was loaded
PayCheck(r) ==
    /\ r \in DOMAIN reqs /\ reqs[r].pc = "check"
    /\ LET err == CreateCheck(reqs[r].ords, reqs[r].pays, reqs[r].orderId,
                              reqs[r].customerId, reqs[r].amount)
       IN IF err # "ok"
          THEN /\ reqs' = [reqs EXCEPT ![r].pc = "done"]
               /\ last' = Call("payments.create", err)
          ELSE /\ reqs' = [reqs EXCEPT ![r].pc = "save"]
               /\ last' = last
    /\ UNCHANGED <<products, orders, nextOrderId, payments, gatewayVars>>

\* paymentRepository.save(payment), status PENDING
PaySavePending(r) ==
    /\ r \in DOMAIN reqs /\ reqs[r].pc = "save"
    /\ Len(payments) < MaxPayments
    /\ payments' = Append(payments,
                          NewPayment(reqs[r].orderId, reqs[r].customerId,
                                     reqs[r].amount, reqs[r].paymentMethod))
    /\ reqs' = [reqs EXCEPT ![r].pc = "dispatch", ![r].pid = Len(payments) + 1]
    /\ UNCHANGED <<products, orders, nextOrderId, last, gatewayVars>>

\* The row a request wrote, as the request holds it in memory.
PayRow(r) ==
    NewPayment(reqs[r].orderId, reqs[r].customerId, reqs[r].amount, reqs[r].paymentMethod)

\* processPayment: the handler of the method, up to its save.  The Stripe
\* handler calls the gateway and saves COMPLETED when the call returns, FAILED
\* (in its catch block) when it throws; its notifications follow.
PayDispatch(r, gatewayOk) ==
    /\ r \in DOMAIN reqs /\ reqs[r].pc = "dispatch"
    /\ IF reqs[r].paymentMethod = "STRIPE"
       THEN IF gatewayOk
            THEN /\ payments' = [payments EXCEPT
                                   ![reqs[r].pid] = [PayRow(r) EXCEPT !.status = "COMPLETED"]]
                 /\ reqs' = [reqs EXCEPT ![r].pc = "notify", ![r].ev = GatewayCall]
                 /\ last' = last
            ELSE /\ payments' = [payments EXCEPT
                                   ![reqs[r].pid] = [PayRow(r) EXCEPT
                                                       !.status = "FAILED",
                                                       !.errorMessage = "gateway error"]]
                 /\ reqs' = [reqs EXCEPT ![r].pc = "notifyFailed", ![r].ev = GatewayCall,
                                         ![r].err = "gateway error"]
                 /\ last' = last
       ELSE /\ payments' = [payments EXCEPT
                              ![reqs[r].pid] = Processed(PayRow(r), gatewayOk, TRUE)]
            /\ reqs' = [reqs EXCEPT ![r].pc = "done"]
            /\ last' = Call("payments.create", "ok")
    /\ UNCHANGED <<products, orders, nextOrderId, gatewayVars>>

\* processStripePayment: the notification of the COMPLETED payment.  When the
\* sink throws, the catch block marks the payment FAILED and saves it.
PayNotify(r, sinkOk) ==
    /\ r \in DOMAIN reqs /\ reqs[r].pc = "notify"
    /\ IF sinkOk
       THEN /\ payments' = payments
            /\ reqs' = [reqs EXCEPT ![r].pc = "done"]
            /\ last' = CallEv("payments.create", "ok",
                               reqs[r].ev \cup PaymentStatusEvents(reqs[r].customerId, "COMPLETED"))
       ELSE /\ payments' = [payments EXCEPT
                              ![reqs[r].pid] = [PayRow(r) EXCEPT
                                                  !.status = "FAILED",
                                                  !.errorMessage = "notification error"]]
            /\ reqs' = [reqs EXCEPT ![r].pc = "notifyFailed", ![r].err = "notification error"]
            /\ last' = last
    /\ UNCHANGED <<products, orders, nextOrderId, gatewayVars>>

\* processStripePayment: the notifications of the catch block and its rethrow,
\* then the catch block of create, which saves FAILED with the message of the
\* exception it caught and rethrows it.
PayNotifyFailed(r, sinkOk) ==
    /\ r \in DOMAIN reqs /\ reqs[r].pc = "notifyFailed"
    /\ LET thrown == IF sinkOk THEN reqs[r].err ELSE "notification error"
           ev == IF sinkOk
                 THEN reqs[r].ev \cup PaymentStatusEvents(reqs[r].customerId, "FAILED")
                                 \cup FailedPaymentEvents
                 ELSE reqs[r].ev
       IN /\ payments' = [payments EXCEPT
                            ![reqs[r].pid] = [PayRow(r) EXCEPT
                                                !.status = "FAILED",
                                                !.errorMessage = thrown]]
          /\ last' = CallEv("payments.create", thrown, ev)
    /\ reqs' = [reqs EXCEPT ![r].pc = "done"]
    /\ UNCHANGED <<products, orders, nextOrderId, gatewayVars>>

\* Two payment requests against the orders of one customer.
NextPayRace ==
    \/ CreateOrder({1}, {<<Line(1, 1)>>}, {nextOrderId}, SinkHealthy)
    \/ \E r \in ReqIds, orderId \in OrderIds, amount \in PayAmounts,
          paymentMethod \in {"STRIPE", "PAYPAL", "CASH"} :
            PayBegin(r, orderId, 1, amount, paymentMethod)
    \/ \E r \in ReqIds : PayLoad(r)
    \/ \E r \in ReqIds : PayCheck(r)
    \/ \E r \in ReqIds : PaySavePending(r)
    \/ \E r \in ReqIds \cap DOMAIN reqs :
          \E gatewayOk \in GatewayOutcomes(reqs[r].paymentMethod) :
            PayDispatch(r, gatewayOk)
    \/ \E r \in ReqIds, sinkOk \in SinkOutcomes : PayNotify(r, sinkOk)
    \/ \E r \in ReqIds, sinkOk \in SinkOutcomes : PayNotifyFailed(r, sinkOk)

SpecPayRace == Init /\ [][NextPayRace]_vars

(* OrdersService.create, await by await *)

\* POST /orders arrives.
OrdBegin(r, customerId, items, suffix) ==
    /\ Idle(r)
    /\ reqs' = Insert(reqs, r,
                      [pc |-> "customer", customerId |-> customerId, items |-> items,
                       suffix |-> suffix, i |-> 1, processed |-> << >>])
    /\ UNCHANGED <<products, orders, nextOrderId, payments, last, gatewayVars>>

\* userRepository.findOne with role CUSTOMER
OrdCustomer(r) ==
    /\ r \in DOMAIN reqs /\ reqs[r].pc = "customer"
    /\ IF reqs[r].customerId \notin CustomerIds
       THEN /\ reqs' = [reqs EXCEPT ![r].pc = "done"]
            /\ last' = Call("orders.create", "Customer not found")
       ELSE /\ reqs' = [reqs EXCEPT ![r].pc = "items"]
            /\ last' = last
    /\ UNCHANGED <<products, orders, nextOrderId, payments, gatewayVars>>

\* processOrderItems: one turn of the loop, productRepository.findOne and
\* the checks on the row read
OrdItem(r) ==
    /\ r \in DOMAIN reqs /\ reqs[r].pc = "items" /\ reqs[r].i <= Len(reqs[r].items)
    /\ LET item == reqs[r].items[reqs[r].i]
           err == ItemError(item, products)
       IN IF err # "ok"
          THEN /\ reqs' = [reqs EXCEPT ![r].pc = "done"]
               /\ last' = Call("orders.create", err)
          ELSE /\ reqs' = [reqs EXCEPT
                             ![r].i = @ + 1,
                             ![r].processed = Append(@, ProcessedItem(item, products))]
               /\ last' = last
    /\ UNCHANGED <<products, orders, nextOrderId, payments, gatewayVars>>

\* calculateOrderTotals, generateOrderNumber, orderRepository.save(order)
OrdSave(r) ==
    /\ r \in DOMAIN reqs /\ reqs[r].pc = "items" /\ reqs[r].i > Len(reqs[r].items)
    /\ IF OrderNumberTaken(reqs[r].suffix)
       THEN /\ reqs' = [reqs EXCEPT ![r].pc = "done"]
            /\ last' = Call("orders.create", "duplicate key orderNumber")
            /\ UNCHANGED <<orders, nextOrderId>>
       ELSE /\ nextOrderId <= MaxOrders
            /\ orders' = Insert(orders, nextOrderId,
                                NewOrder(nextOrderId, reqs[r].suffix, reqs[r].customerId,
                                         reqs[r].processed,
                                         calculateOrderTotals(reqs[r].processed)))
            /\ nextOrderId' = nextOrderId + 1
            /\ reqs' = [reqs EXCEPT ![r].pc = "decrement", ![r].i = 1]
            /\ last' = last
    /\ UNCHANGED <<products, payments, gatewayVars>>

\* productRepository.decrement({ id }, 'stock', quantity): one turn of the loop
OrdDecrement(r) ==
    /\ r \in DOMAIN reqs /\ reqs[r].pc = "decrement" /\ reqs[r].i <= Len(reqs[r].processed)
    /\ LET item == reqs[r].processed[reqs[r].i]
       IN products' = [products EXCEPT ![item.productId].stock = @ - item.quantity]
    /\ reqs' = [reqs EXCEPT ![r].i = @ + 1]
    /\ UNCHANGED <<orders, nextOrderId, payments, last, gatewayVars>>

\* notifyNewOrder, return savedOrder
OrdReturn(r, sinkOk) ==
    /\ r \in DOMAIN reqs /\ reqs[r].pc = "decrement" /\ reqs[r].i > Len(reqs[r].processed)
    /\ reqs' = [reqs EXCEPT ![r].pc = "done"]
    /\ last' = IF sinkOk
               THEN CallEv("orders.create", "ok", NewOrderEvents)
               ELSE Call("orders.create", "notification error")
    /\ UNCHANGED <<products, orders, nextOrderId, payments, gatewayVars>>

\* Two order requests of one customer; each cart names every product once at most.
RaceCarts == {<<Line(1, 1)>>, <<Line(1, 2)>>, <<Line(2, 2), Line(1, 2)>>}

NextOrderRace ==
    \/ \E r \in ReqIds, c \in {1, MissingUser}, items \in RaceCarts, suffix \in Suffixes :
            OrdBegin(r, c, items, suffix)
    \/ \E r \in ReqIds : OrdCustomer(r)
    \/ \E r \in ReqIds : OrdItem(r)
    \/ \E r \in ReqIds : OrdSave(r)
    \/ \E r \in ReqIds : OrdDecrement(r)
    \/ \E r \in ReqIds, sinkOk \in SinkOutcomes : OrdReturn(r, sinkOk)

SpecOrderRace == Init /\ [][NextOrderRace]_vars

(* PaymentsService.refund, await by await *)

\* POST /payments/:id/refund arrives.
RefBegin(r, paymentId, amount) ==
    /\ Idle(r)
    /\ reqs' = Insert(reqs, r,
                      [pc |-> "load", paymentId |-> paymentId, amount |-> amount,
                       row |-> << >>, called |-> FALSE, res |-> None])
    /\ UNCHANGED <<products, orders, nextOrderId, payments, last, gatewayVars>>

\* findOne(paymentId), then the checks on the row read
RefLoad(r) ==
    /\ r \in DOMAIN reqs /\ reqs[r].pc = "load"
    /\ LET id == reqs[r].paymentId
           err == IF id \notin DOMAIN payments THEN "Payment not found"
                  ELSE IF ~Refundable(payments[id].status)
                       THEN "Only completed payments can be refunded"
                  ELSE IF RefundAmount(reqs[r].amount, payments[id].amount)
                            > payments[id].amount
                       THEN "Refund amount cannot exceed payment amount"
                  ELSE "ok"
       IN IF err # "ok"
          THEN /\ reqs' = [reqs EXCEPT ![r].pc = "done", ![r].res = err]
               /\ last' = Call("payments.refund", err)
          ELSE /\ reqs' = [reqs EXCEPT
                             ![r].pc = IF payments[id].paymentMethod = "STRIPE"
                                       THEN "gateway" ELSE "save",
                             ![r].row = <<payments[id]>>]
               /\ last' = last
    /\ UNCHANGED <<products, orders, nextOrderId, payments, gatewayVars>>

\* processStripeRefund: stripe.refunds.create returns, and the gateway has
\* carried out a refund for this request (called), or throws
RefGateway(r, gatewayOk) ==
    /\ r \in DOMAIN reqs /\ reqs[r].pc = "gateway"
    /\ IF gatewayOk
       THEN /\ reqs' = [reqs EXCEPT ![r].pc = "save", ![r].called = TRUE]
            /\ last' = last
       ELSE /\ reqs' = [reqs EXCEPT ![r].pc = "done", ![r].res = "Stripe refund failed"]
            /\ last' = Call("payments.refund", "Stripe refund failed")
    /\ UNCHANGED <<products, orders, nextOrderId, payments, gatewayVars>>

\* paymentRepository.save(payment): the row read earlier, with the refund
\* fields set, overwrites the stored row.
RefSave(r, asString) ==
    /\ r \in DOMAIN reqs /\ reqs[r].pc = "save"
    /\ LET row == reqs[r].row[1]
       IN payments' = [payments EXCEPT ![reqs[r].paymentId] =
                          [row EXCEPT
                              !.status = RefundStatus(reqs[r].amount, row.amount, asString),
                              !.refundAmount = RefundAmount(reqs[r].amount, row.amount),
                              !.refundedAt = "now"]]
    /\ reqs' = [reqs EXCEPT ![r].pc = "done", ![r].res = "ok"]
    /\ last' = Call("payments.refund", "ok")
    /\ UNCHANGED <<products, orders, nextOrderId, gatewayVars>>

\* One order with a COMPLETED payment of its final amount, by card or PayPal.
InitRefundRace ==
    /\ products = [p \in ProductIds |-> SeedProduct(p)]
    /\ orders = <<PaidOrder>>
    /\ nextOrderId = 2
    /\ payments \in {<<[NewPayment(1, 1, PaidOrder.finalAmount, m)
                           EXCEPT !.status = "COMPLETED"]>> : m \in RefundMethods}
    /\ last = NoCall
    /\ reqs = << >>
    /\ NoSockets

NextRefundRace ==
    \/ \E r \in ReqIds, paymentId \in PaymentIds, amount \in RefundAmounts :
          RefBegin(r, paymentId, amount)
    \/ \E r \in ReqIds : RefLoad(r)
    \/ \E r \in ReqIds, gatewayOk \in BOOLEAN : RefGateway(r, gatewayOk)
    \/ \E r \in ReqIds \cap DOMAIN reqs :
          \E asString \in (IF Falsy(reqs[r].amount) THEN {TRUE} ELSE BOOLEAN) :
            RefSave(r, asString)

SpecRefundRace == InitRefundRace /\ [][NextRefundRace]_vars

(* OrdersService.updateStatus and cancel, await by await *)

\* PUT /orders/:id/status (op "updateStatus", with the status asked for) or
\* PUT /orders/:id/cancel (op "cancel") arrives.
StBegin(r, op, id, status) ==
    /\ Idle(r)
    /\ reqs' = Insert(reqs, r, [pc |-> "load", op |-> op, id |-> id,
                                status |-> status, row |-> << >>])
    /\ UNCHANGED <<products, orders, nextOrderId, payments, last, gatewayVars>>

\* findOne(id), then the guard on the row read: isValidStatusTransition for
\* updateStatus, PENDING or CONFIRMED for cancel.  The new status (and the
\* delivery date) is set on the copy in memory.
StLoad(r) ==
    /\ r \in DOMAIN reqs /\ reqs[r].pc = "load"
    /\ LET id == reqs[r].id
           name == IF reqs[r].op = "cancel" THEN "orders.cancel" ELSE "orders.updateStatus"
           err == IF id \notin DOMAIN orders THEN "Order not found"
                  ELSE IF reqs[r].op = "cancel"
                       THEN (IF orders[id].status \in {"PENDING", "CONFIRMED"}
                             THEN "ok" ELSE "Cannot cancel order")
                  ELSE IF isValidStatusTransition(orders[id].status, reqs[r].status)
                       THEN "ok" ELSE "Invalid status transition"
       IN IF err # "ok"
          THEN /\ reqs' = Delete(reqs, r)
               /\ last' = Call(name, err)
          ELSE /\ reqs' = [reqs EXCEPT
                             ![r].pc = "save",
                             ![r].row = <<[orders[id] EXCEPT
                                             !.status = reqs[r].status,
                                             !.deliveredDate =
                                                 IF reqs[r].status = "DELIVERED"
                                                 THEN "now" ELSE @]>>]
               /\ last' = last
    /\ UNCHANGED <<products, orders, nextOrderId, payments, gatewayVars>>

\* orderRepository.save(order): the copy in memory overwrites the stored row.
\* cancel returns here; updateStatus goes on to the notification.
StSave(r) ==
    /\ r \in DOMAIN reqs /\ reqs[r].pc = "save"
    /\ reqs[r].id \in DOMAIN orders
    /\ orders' = [orders EXCEPT ![reqs[r].id] = reqs[r].row[1]]
    /\ IF reqs[r].op = "cancel"
       THEN /\ reqs' = Delete(reqs, r)
            /\ last' = Call("orders.cancel", "ok")
       ELSE /\ reqs' = [reqs EXCEPT ![r].pc = "notify"]
            /\ last' = last
    /\ UNCHANGED <<products, nextOrderId, payments, gatewayVars>>

\* updateStatus: notifyOrderStatusUpdate returns or throws, and so does the call.
StReturn(r, sinkOk) ==
    /\ r \in DOMAIN reqs /\ reqs[r].pc = "notify"
    /\ reqs' = Delete(reqs, r)
    /\ last' = IF sinkOk
               THEN CallEv("orders.updateStatus", "ok",
                           OrderStatusEvents(reqs[r].row[1].customerId, reqs[r].status))
               ELSE Call("orders.updateStatus", "notification error")
    /\ UNCHANGED <<products, orders, nextOrderId, payments, gatewayVars>>

\* One PENDING order.
InitStatusRace ==
    /\ products = [p \in ProductIds |-> SeedProduct(p)]
    /\ orders = <<PaidOrder>>
    /\ nextOrderId = 2
    /\ payments = << >>
    /\ last = NoCall
    /\ reqs = << >>
    /\ NoSockets

NextStatusRace ==
    \/ \E r \in ReqIds, id \in OrderIds, status \in OrderStatus :
          StBegin(r, "updateStatus", id, status)
    \/ \E r \in ReqIds, id \in OrderIds : StBegin(r, "cancel", id, "CANCELLED")
    \/ \E r \in ReqIds : StLoad(r)
    \/ \E r \in ReqIds : StSave(r)
    \/ \E r \in ReqIds, sinkOk \in SinkOutcomes : StReturn(r, sinkOk)

SpecStatusRace == InitStatusRace /\ [][NextStatusRace]_vars

----------------------------------------------------------------------------
(* NotificationsGateway: connections and disconnections *)

MaxSockets == 3      \* sockets ever opened

\* The key a Map lookup uses for a property the object does not have.
Undefined == 0

\* The payload AuthService.login signs for a user: sub, email, role, name.
LoginPayload(user) == [sub |-> user, role |-> Role(user)]

\* What a socket's handshake can carry: no token, a token that does not
\* verify, or a token login issued, with the payload verify returns for it.
NoToken == [token |-> "none", payload |-> [sub |-> Undefined, role |-> None]]

InvalidToken == [token |-> "invalid", payload |-> [sub |-> Undefined, role |-> None]]

Handshakes ==
    {NoToken, InvalidToken}
      \cup {[token |-> "login", payload |-> LoginPayload(u)] : u \in UserIds}

\* handleConnection: const userId = payload.id
PayloadId(payload) == IF "id" \in DOMAIN payload THEN payload.id ELSE Undefined

\* Map.set(key, value)
MapSet(map, key, value) ==
    [k \in DOMAIN map \cup {key} |-> IF k = key THEN value ELSE map[k]]

\* handleConnection(client): socket.io has accepted the socket; without a
\* token, or with one that does not verify, the socket is disconnected, and
\* the handleDisconnect that follows finds it in neither collection.
\* Otherwise it is stored under payload.id, and in adminClients for an admin.
HandleConnection(handshake) ==
    /\ Len(sockets) < MaxSockets
    /\ LET client == Len(sockets) + 1
       IN IF handshake.token \in {"none", "invalid"}
          THEN /\ sockets' = Append(sockets, [connected |-> FALSE, user |-> Undefined])
               /\ UNCHANGED <<connectedClients, adminClients>>
          ELSE LET payload == handshake.payload
               IN /\ sockets' = Append(sockets, [connected |-> TRUE, user |-> payload.sub])
                  /\ connectedClients' = MapSet(connectedClients, PayloadId(payload), client)
                  /\ adminClients' = IF payload.role = "ADMIN"
                                     THEN adminClients \cup {client} ELSE adminClients
    /\ UNCHANGED <<products, orders, nextOrderId, payments, last, reqs>>

\* handleDisconnect(client): the first entry of connectedClients that holds
\* this very socket is deleted, and the socket leaves adminClients.
HandleDisconnect(client) ==
    /\ client \in DOMAIN sockets /\ sockets[client].connected
    /\ sockets' = [sockets EXCEPT ![client].connected = FALSE]
    /\ connectedClients' =
          [k \in {k \in DOMAIN connectedClients : connectedClients[k] # client} |->
              connectedClients[k]]
    /\ adminClients' = adminClients \ {client}
    /\ UNCHANGED <<products, orders, nextOrderId, payments, last, reqs>>

\* sendToUser(userId, ...): the sockets the event is emitted to and that are
\* still connected to receive it.
SendToUser(userId) ==
    IF userId \in DOMAIN connectedClients /\ sockets[connectedClients[userId]].connected
    THEN {connectedClients[userId]} ELSE {}

NextGateway ==
    \/ \E handshake \in Handshakes : HandleConnection(handshake)
    \/ \E client \in 1..MaxSockets : HandleDisconnect(client)

SpecGateway == Init /\ [][NextGateway]_vars

----------------------------------------------------------------------------
(* Properties *)

\* The sum of the amounts of the COMPLETED payments of order i in a table.
PaidIn(pays, i) ==
    SumSeq([k \in 1..Len(pays) |->
              IF pays[k].orderId = i /\ pays[k].status = "COMPLETED"
              THEN pays[k].amount ELSE 0])

PaidOn(i) == PaidIn(payments, i)

\* The edges of the order lifecycle.
LifecycleEdges ==
    {<<"PENDING", "CONFIRMED">>, <<"PENDING", "CANCELLED">>,
     <<"CONFIRMED", "SHIPPED">>, <<"CONFIRMED", "CANCELLED">>,
     <<"SHIPPED", "DELIVERED">>, <<"DELIVERED", "REFUNDED">>}

\* C1: with payments and refunds served one at a time, the COMPLETED payments
\* of an order never add up to more than its finalAmount.
C1_NoOverpayment ==
    \A i \in DOMAIN orders : PaidOn(i) <= orders[i].finalAmount

\* C1 witness: an order paid in full by a second payment, after its first
\* payment was refunded.
C1_Witness ==
    \E i \in DOMAIN orders :
        /\ PaidOn(i) = orders[i].finalAmount
        /\ \E k \in DOMAIN payments :
              payments[k].orderId = i /\ payments[k].status = "REFUNDED"
        /\ \E k \in DOMAIN payments :
              payments[k].orderId = i /\ payments[k].status = "COMPLETED"

\* C2: while two payment requests for one order are in flight, the COMPLETED
\* payments of that order still add up to at most its finalAmount.
C2_NoOverpaymentInFlight ==
    \A i \in DOMAIN orders :
        (\E r1, r2 \in DOMAIN reqs :
            r1 # r2 /\ reqs[r1].orderId = i /\ reqs[r2].orderId = i)
        => PaidOn(i) <= orders[i].finalAmount

\* C3: after any sequence of reserveStock and updateStock calls the stock of
\* every product is at least zero.
C3_StockNeverNegative ==
    \A p \in DOMAIN products : products[p].stock >= 0

\* C4: while two order requests for the same product are in flight, the stock
\* of no product drops below zero.
C4_StockNeverNegativeInFlight ==
    (\E r1, r2 \in DOMAIN reqs : r1 # r2)
    => \A p \in DOMAIN products : ~(products[p].stock < 0)

C6_StatusFollowsLifecycle ==
    [][\A i \in DOMAIN orders \cap DOMAIN orders' :
          orders'[i].status # orders[i].status
          => <<orders[i].status, orders'[i].status>> \in LifecycleEdges]_vars

\* Some line of the request asks for more than the stock of its product, and
\* no line up to the first such line names a missing or inactive product.
FirstFailureIsStock(items, prods) ==
    \E k \in 1..Len(items) :
        /\ \A j \in 1..k : /\ items[j].productId \in DOMAIN prods
                           /\ prods[items[j].productId].isActive
        /\ items[k].quantity > prods[items[k].productId].stock

\* C7 as stated: a create by an existing customer with a line asking for more
\* than the stock fails with the insufficient-stock error, whatever the
\* position of that line, and changes neither orders nor stock.
C7_OverStockInsufficient ==
    [][\A c \in CustomerIds, items \in ItemLists, suffix \in 1..NumSuffix :
          (OrdersCreate(c, items, suffix, TRUE) /\ OverStock(items, products))
          => /\ last'.res = "Insufficient stock"
             /\ orders' = orders
             /\ products' = products]_vars

\* C7 amended: a create with a line asking for more than the stock fails and
\* changes neither orders nor stock; the error is the insufficient-stock one
\* when the customer exists and no line up to the first over-stock line names
\* a missing or inactive product.  In every state the item checks refuse each
\* over-stock cart; a create that fails changes nothing; and a create that
\* succeeds persisted lines that each fitted the stock it found.
C7_OverStockRejected ==
    /\ [](\A items \in ItemLists :
            OverStock(items, products)
            => /\ processOrderItems(items, products).err # "ok"
               /\ FirstFailureIsStock(items, products)
                  => processOrderItems(items, products).err = "Insufficient stock")
    /\ [][last'.op = "orders.create"
          => IF last'.res = "ok"
             THEN /\ DOMAIN orders' = DOMAIN orders \cup {nextOrderId}
                  /\ \A k \in 1..Len(orders'[nextOrderId].items) :
                        orders'[nextOrderId].items[k].quantity
                          <= products[orders'[nextOrderId].items[k].productId].stock
             ELSE /\ orders' = orders
                  /\ products' = products]_vars

\* C7 witness: a create refused for stock after an earlier order took some.
C7_Witness ==
    /\ last = Call("orders.create", "Insufficient stock")
    /\ orders # << >>
    /\ \E p \in DOMAIN products : products[p].stock < InitStock

\* C8: every persisted order has totalAmount the sum of its lines, taxAmount
\* 10% of it, shippingCost 0 above $100 and $10 otherwise, no discount, and
\* finalAmount == totalAmount + taxAmount + shippingCost - discountAmount.
C8_TotalsHold ==
    \A i \in DOMAIN orders :
        LET o == orders[i] IN
        /\ o.totalAmount =
             SumSeq([k \in 1..Len(o.items) |-> o.items[k].unitPrice * o.items[k].quantity])
        /\ 10 * o.taxAmount = o.totalAmount
        /\ o.shippingCost = (IF o.totalAmount > 100 * Cents THEN 0 ELSE 10 * Cents)
        /\ o.discountAmount = 0
        /\ o.finalAmount = o.totalAmount + o.taxAmount + o.shippingCost - o.discountAmount

C10_RefundUsesSuppliedAmount ==
    [][\A paymentId \in DOMAIN payments, amount \in RefundAmounts,
          gatewayOk \in BOOLEAN, asString \in BOOLEAN :
          (PaymentsRefund(paymentId, amount, gatewayOk, asString)
             /\ payments[paymentId].status = "COMPLETED")
          => LET A == payments[paymentId].amount
                 refundAmount == IF amount = << >> THEN A ELSE amount[1]
             IN IF refundAmount > A
                THEN /\ last'.res = "Refund amount cannot exceed payment amount"
                     /\ payments' = payments
                ELSE IF last'.res = "ok"
                THEN /\ payments'[paymentId].refundAmount = refundAmount
                     /\ payments'[paymentId].status =
                          (IF refundAmount = A THEN "REFUNDED" ELSE "PARTIALLY_REFUNDED")
                ELSE payments' = payments]_vars

\* C11: a refund of a payment whose status is not COMPLETED fails and leaves
\* the payments as they were (status, refundAmount and refundedAt included),
\* and so does a refund of a COMPLETED Stripe payment whose gateway call throws.
C11_RefundRequiresCompleted ==
    [][\A paymentId \in DOMAIN payments, amount \in RefundAmounts,
          gatewayOk \in BOOLEAN, asString \in BOOLEAN :
          (PaymentsRefund(paymentId, amount, gatewayOk, asString)
             /\ \/ payments[paymentId].status # "COMPLETED"
                \/ payments[paymentId].paymentMethod = "STRIPE" /\ ~gatewayOk)
          => /\ last'.res # "ok"
             /\ payments[paymentId].status # "COMPLETED"
                  => last'.res = "Only completed payments can be refunded"
             /\ payments' = payments]_vars

\* C11 witness: a refund refused while no payment is COMPLETED and one is
\* PROCESSING.
C11_Witness ==
    /\ last = Call("payments.refund", "Only completed payments can be refunded")
    /\ \A k \in DOMAIN payments : payments[k].status # "COMPLETED"
    /\ \E k \in DOMAIN payments : payments[k].status = "PROCESSING"

\* The errors create can end with before it writes a payment row.
RejectedBeforeSave ==
    {"Order not found", "Customer not found", "Order cannot be paid in current status",
     "Payment amount must be greater than 0",
     "Payment amount exceeds remaining order balance",
     "Payment amount does not cover remaining balance"}

\* C12: a create of a payment is rejected whenever the order is not PENDING or
\* CONFIRMED and whenever amount <= 0; the checks come in the order order
\* exists, customer exists, order payable, amount > 0, no overpayment, no
\* underpayment, and the first that fails decides the error; a rejected create
\* writes no payment row and calls no gateway.
C12_ChecksInOrder ==
    /\ [](\A orderId \in OrderIds, customerId \in {1, MissingUser}, amount \in PayAmounts :
            LET err == CreateCheck(orders, payments, orderId, customerId, amount)
                noOrder == orderId \notin DOMAIN orders
                noCustomer == customerId \notin CustomerIds \cup {AdminId}
                unpayable == orders[orderId].status \notin {"PENDING", "CONFIRMED"}
                over == PaidOn(orderId) + amount > orders[orderId].finalAmount
                under == amount < orders[orderId].finalAmount - PaidOn(orderId)
            IN IF noOrder THEN err = "Order not found"
               ELSE IF noCustomer THEN err = "Customer not found"
               ELSE IF unpayable THEN err = "Order cannot be paid in current status"
               ELSE IF amount <= 0 THEN err = "Payment amount must be greater than 0"
               ELSE IF over THEN err = "Payment amount exceeds remaining order balance"
               ELSE IF under THEN err = "Payment amount does not cover remaining balance"
               ELSE err = "ok")
    /\ [][(last'.op = "payments.create" /\ last'.res \in RejectedBeforeSave)
          => payments' = payments /\ last'.ev = {}]_vars

\* C12 witness: a payment refused because its order was cancelled.
C12_Witness ==
    /\ last = Call("payments.create", "Order cannot be paid in current status")
    /\ payments = << >>
    /\ \E i \in DOMAIN orders : orders[i].status = "CANCELLED"

\* C13: when the call to Stripe throws during create, the payment is saved
\* FAILED with the error message of the gateway, the customer is sent a FAILED
\* payment-status event and the admins a payment-failed event, and create
\* ends with the exception of the gateway.
C13_StripeFailureReported ==
    [][\A orderId \in OrderIds, amount \in PayAmounts, sinkOk \in SinkOutcomes :
          (PaymentsCreate(orderId, 1, amount, "STRIPE", FALSE, sinkOk)
             /\ CreateCheck(orders, payments, orderId, 1, amount) = "ok")
          => LET row == payments'[Len(payments')]
             IN /\ Len(payments') = Len(payments) + 1
                /\ row.status = "FAILED"
                /\ row.errorMessage = "gateway error"
                /\ Event("payment_status_update", 1, "FAILED") \in last'.ev
                /\ Event("payment_failed", AdminRoom, "FAILED") \in last'.ev
                /\ last'.res = "gateway error"]_vars

\* C14: a payment that create leaves COMPLETED, by STRIPE, PAYPAL or MAYA, comes
\* with a COMPLETED payment-status event sent to the customer of the payment.
C14_CompletedIsAnnounced ==
    [][(/\ last'.op = "payments.create"
        /\ Len(payments') = Len(payments) + 1
        /\ payments'[Len(payments')].status = "COMPLETED"
        /\ payments'[Len(payments')].paymentMethod \in {"STRIPE", "PAYPAL", "MAYA"})
       => Event("payment_status_update", payments'[Len(payments')].customerId, "COMPLETED")
            \in last'.ev]_vars

\* C15: a create of an order whose notification throws still returns the
\* order it saved.
C15_NotifyFailureSwallowed ==
    [][\A items \in {<<Line(1, 1)>>} :
          (OrdersCreate(1, items, nextOrderId, FALSE) /\ DOMAIN orders' # DOMAIN orders)
          => last'.res = "ok"]_vars

\* The edges of the payment lifecycle; a dispatch may pass through PROCESSING
\* without saving it.
PaymentEdges ==
    {<<"PENDING", "PROCESSING">>, <<"PENDING", "COMPLETED">>, <<"PENDING", "FAILED">>,
     <<"PROCESSING", "COMPLETED">>, <<"PROCESSING", "FAILED">>,
     <<"COMPLETED", "REFUNDED">>, <<"COMPLETED", "PARTIALLY_REFUNDED">>}

\* C16: a payment row is written PENDING first, and every later change of its
\* saved status is an edge of the payment lifecycle; in particular a payment
\* saved COMPLETED never becomes FAILED or PENDING.
C16_PaymentFollowsLifecycle ==
    [][\A k \in DOMAIN payments' :
          IF k \in DOMAIN payments
          THEN payments'[k].status # payments[k].status
               => <<payments[k].status, payments'[k].status>> \in PaymentEdges
          ELSE payments'[k].status = "PENDING"]_vars

\* The columns of an order that update is not meant to write.
ProtectedFields ==
    {"id", "orderNumber", "customerId", "status", "items", "totalAmount", "taxAmount",
     "shippingCost", "discountAmount", "finalAmount"}

\* C17: update succeeds only on a PENDING order and otherwise fails and leaves
\* the orders as they were; when it succeeds, the status, the items, the
\* monetary fields, the order number and the customer of every order are
\* what they were.
C17_UpdateOnlyDetails ==
    [][last'.op = "orders.update"
       => IF last'.res = "ok"
          THEN /\ DOMAIN orders' = DOMAIN orders
               /\ \A i \in DOMAIN orders, f \in ProtectedFields :
                     orders'[i][f] = orders[i][f]
               /\ \A i \in DOMAIN orders :
                     orders[i].status # "PENDING" => orders'[i] = orders[i]
          ELSE orders' = orders]_vars

\* C18: a catalogue operation (ProductsService.update, deactivate, remove)
\* leaves every existing order as it was: its lines with their product names,
\* unit prices and line totals, and its subtotal, tax, shipping cost and final
\* amount.
C18_OrdersKeepSnapshots ==
    [][last'.op \in {"products.update", "deactivate", "products.remove"}
       => /\ DOMAIN orders' = DOMAIN orders
          /\ \A i \in DOMAIN orders :
                /\ orders'[i].items = orders[i].items
                /\ orders'[i].totalAmount = orders[i].totalAmount
                /\ orders'[i].taxAmount = orders[i].taxAmount
                /\ orders'[i].shippingCost = orders[i].shippingCost
                /\ orders'[i].finalAmount = orders[i].finalAmount]_vars

\* An order holds a line whose product was since repriced and renamed, and
\* another order holds a line of a product that was since deleted.
C18_Witness ==
    /\ last.op \in {"products.update", "products.remove"}
    /\ last.res = "ok"
    /\ \E i \in DOMAIN orders : \E k \in DOMAIN orders[i].items :
          LET line == orders[i].items[k]
          IN /\ line.productId \in DOMAIN products
             /\ line.unitPrice # products[line.productId].price
             /\ line.productName # products[line.productId].name
    /\ \E i \in DOMAIN orders : \E k \in DOMAIN orders[i].items :
          orders[i].items[k].productId \notin DOMAIN products

\* C19: no two persisted orders carry the same orderNumber, and a creation
\* whose generated number is already taken saves no order and decrements no
\* stock.
C19_OrderNumbersUnique ==
    /\ [](\A i, j \in DOMAIN orders :
            orders[i].orderNumber = orders[j].orderNumber => i = j)
    /\ [][last'.op = "orders.create" /\ last'.res = "duplicate key orderNumber"
          => orders' = orders /\ products' = products]_vars

\* A creation that passed every check was refused for the number of an
\* order already stored.
C19_Witness ==
    /\ last = Call("orders.create", "duplicate key orderNumber")
    /\ \E i \in DOMAIN orders :
          /\ orders[i].orderNumber \in Suffixes
          /\ \A p \in DOMAIN products : products[p].stock >= 1

\* A response carries a row of somebody other than the caller.
Foreign(body, caller) ==
    \/ \E o \in body.orders : o.customerId # caller
    \/ \E p \in body.payments : p.customerId # caller

\* C20: nothing a customer reads through GET /orders, GET /orders/:id,
\* GET /payments or GET /payments/:id, whatever customerId filter is passed,
\* carries an order or a payment of another customer; and PUT /orders/:id and
\* PUT /orders/:id/cancel by a customer on another customer's order change no
\* order.
C20_CustomerIsolation ==
    /\ [](\A caller \in CustomerIds :
            /\ \A customerId \in {<< >>} \cup {<<u>> : u \in UserIds} :
                  /\ ~Foreign(OrdersControllerFindAll(caller, customerId), caller)
                  /\ ~Foreign(PaymentsControllerFindAll(caller, customerId), caller)
            /\ \A id \in OrderIds : ~Foreign(OrdersControllerFindOne(caller, id), caller)
            /\ \A id \in PaymentIds :
                  ~Foreign(PaymentsControllerFindOne(caller, id), caller))
    /\ [][\A caller \in CustomerIds, id \in DOMAIN orders :
            orders[id].customerId # caller
              => /\ \A patch \in TenantPatches :
                       OrdersControllerUpdate(caller, id, patch) => orders' = orders
                 /\ OrdersControllerCancel(caller, id, None) => orders' = orders]_vars

\* C21: an order in status DELIVERED or REFUNDED has its deliveredDate set,
\* and an order in a status that precedes DELIVERED in the lifecycle, or
\* CANCELLED, has none.
C21_DeliveredDateStamped ==
    \A i \in DOMAIN orders :
        IF orders[i].status \in {"DELIVERED", "REFUNDED"}
        THEN orders[i].deliveredDate # None
        ELSE orders[i].deliveredDate = None

\* C22: after any sequence of create calls served one at a time, each with
\* lines of positive quantity, the stock of every product is at least zero.
C22_CreateKeepsStockNonNegative ==
    last.op \in {"init", "orders.create"}
    => \A p \in DOMAIN products : products[p].stock >= 0

\* The total quantity the lines of an order ask of product p.
RECURSIVE Ordered(_, _)
Ordered(p, lines) ==
    IF lines = << >> THEN 0
    ELSE (IF Head(lines).productId = p THEN Head(lines).quantity ELSE 0)
           + Ordered(p, Tail(lines))

\* C23: a successful create persists exactly one new order, in status PENDING,
\* lowers the stock of each product by exactly the total quantity the order
\* asks of it, and leaves the stock of every other product unchanged.
C23_CreateDecrementsExactly ==
    [][last'.op = "orders.create" /\ last'.res = "ok"
       => /\ DOMAIN orders' = DOMAIN orders \cup {nextOrderId}
          /\ nextOrderId \notin DOMAIN orders
          /\ \A i \in DOMAIN orders : orders'[i] = orders[i]
          /\ orders'[nextOrderId].status = "PENDING"
          /\ DOMAIN products' = DOMAIN products
          /\ \A p \in DOMAIN products :
                /\ products'[p].stock
                     = products[p].stock - Ordered(p, orders'[nextOrderId].items)
                /\ Ordered(p, orders'[nextOrderId].items) = 0
                     => products'[p] = products[p]]_vars

\* A create that succeeded with two lines of one product and none of another.
C23_Witness ==
    /\ last.op = "orders.create" /\ last.res = "ok"
    /\ \E i \in DOMAIN orders, p, q \in DOMAIN products :
          /\ i = nextOrderId - 1
          /\ Len(orders[i].items) = 2
          /\ Ordered(p, orders[i].items) = 2
          /\ orders[i].items[1].productId = p /\ orders[i].items[2].productId = p
          /\ products[p].stock = InitStock - 2
          /\ products[q].stock = InitStock

\* C24: cancel and remove leave every product as it is: the stock taken when
\* the order was created is not returned.
C24_CancelKeepsStock ==
    [][last'.op \in {"orders.cancel", "orders.remove"} => products' = products]_vars

\* The only order ever created was cancelled, or removed, and its product is
\* still short of the quantity it took.
C24_Witness ==
    /\ last.op \in {"orders.cancel", "orders.remove"} /\ last.res = "ok"
    /\ nextOrderId = 2
    /\ \A i \in DOMAIN orders : orders[i].status = "CANCELLED"
    /\ products[1].stock < InitStock

\* The refund requests received for payment k.
RefundsOf(k) == {r \in DOMAIN reqs : reqs[r].paymentId = k}

\* C25: of the refund requests in flight for one payment at most one succeeds,
\* the gateway carries out at most one refund, and the amounts refunded add up
\* to at most the amount of the payment.
C25_OneRefundInFlight ==
    \A k \in DOMAIN payments :
        LET succeeded == {r \in RefundsOf(k) : reqs[r].res = "ok"}
            called == {r \in RefundsOf(k) : reqs[r].called}
            refunded == [r \in succeeded |->
                            RefundAmount(reqs[r].amount, payments[k].amount)]
        IN /\ Cardinality(succeeded) <= 1
           /\ Cardinality(called) <= 1
           /\ \A r1, r2 \in succeeded :
                  r1 # r2 => refunded[r1] + refunded[r2] <= payments[k].amount

\* C26: while status requests for an order are in flight, every change of the
\* status persisted for it is an edge of the lifecycle.
C26_StatusFollowsLifecycleInFlight ==
    [][\A i \in DOMAIN orders :
          (\E r \in DOMAIN reqs : reqs[r].id = i)
            /\ orders'[i].status # orders[i].status
          => <<orders[i].status, orders'[i].status>> \in LifecycleEdges]_vars

\* Order i has a refunded payment, in full or in part, and no COMPLETED one.
OnlyRefunded(i) ==
    /\ \E k \in DOMAIN payments :
          /\ payments[k].orderId = i
          /\ payments[k].status \in {"REFUNDED", "PARTIALLY_REFUNDED"}
    /\ \A k \in DOMAIN payments :
          payments[k].orderId = i => payments[k].status # "COMPLETED"

\* C27: once the COMPLETED payment of a payable order is refunded, in full or
\* in part, the checks of create accept a payment for that order exactly when
\* its amount is the whole finalAmount of the order, and a payment then
\* accepted carries that amount.
C27_RefundedCountsForNothing ==
    /\ [](\A i \in DOMAIN orders, amount \in PayAmounts :
            (OnlyRefunded(i) /\ canOrderBePaid(orders[i]))
            => (CreateCheck(orders, payments, i, 1, amount) = "ok"
                  <=> amount = orders[i].finalAmount))
    /\ [][(/\ last'.op = "payments.create"
           /\ Len(payments') = Len(payments) + 1
           /\ OnlyRefunded(payments'[Len(payments')].orderId))
          => payments'[Len(payments')].amount
               = orders[payments'[Len(payments')].orderId].finalAmount]_vars

\* A payment of the whole final amount was accepted for an order whose
\* earlier payment is refunded in part.
C27_Witness ==
    /\ last.op = "payments.create" /\ last.res = "ok"
    /\ Len(payments) = 2
    /\ payments[1].status = "PARTIALLY_REFUNDED"
    /\ payments[1].refundAmount < payments[1].amount
    /\ payments[2].orderId = payments[1].orderId
    /\ payments[2].amount = orders[payments[2].orderId].finalAmount

\* C28: after any sequence of create calls served one at a time, no order has
\* two payments that are PENDING or COMPLETED at the same time.
C28_OneOpenPayment ==
    \A k1, k2 \in DOMAIN payments :
        (/\ payments[k1].orderId = payments[k2].orderId
         /\ payments[k1].status \in {"PENDING", "COMPLETED"}
         /\ payments[k2].status \in {"PENDING", "COMPLETED"})
        => k1 = k2

\* C29: every persisted payment belongs to the customer of the order it pays.
C29_PaymentByOrderOwner ==
    \A k \in DOMAIN payments :
        payments[k].orderId \in DOMAIN orders
        => payments[k].customerId = orders[payments[k].orderId].customerId

\* C30: a socket that connected without a valid token is disconnected and is
\* in neither connectedClients nor adminClients; and sendToUser reaches a
\* connected socket of every user who has an authenticated socket connected.
C30_ConnectedUsersReachable ==
    /\ \A s \in DOMAIN sockets :
          sockets[s].user = Undefined
          => /\ ~sockets[s].connected
             /\ s \notin adminClients
             /\ \A k \in DOMAIN connectedClients : connectedClients[k] # s
    /\ \A u \in UserIds :
          (\E s \in DOMAIN sockets : sockets[s].connected /\ sockets[s].user = u)
          => \E s \in SendToUser(u) : sockets[s].connected /\ sockets[s].user = u

====
